---- MODULE Spec2Model ----
(***************************************************************************)
(* A model of parqat: the JSON-lines -> Parquet forward conversion         *)
(* (toParquetOptimized, StreamingToParquet, buildOptimizedSchema) and the  *)
(* Parquet -> JSON-lines row projection (FromParquet, fromParquet).        *)
(*                                                                         *)
(* Three specifications share the variables:                               *)
(*   SpecSchema  the field statistics collector and the schema builder     *)
(*   SpecRead    the row projection reader over an arbitrary table         *)
(*   Spec        the two forward strategies, step by step, followed by     *)
(*               the reverse conversion of what they wrote                 *)
(***************************************************************************)
EXTENDS Integers, Sequences, FiniteSets, TLC

(***************************************************************************)
(* Bounds of the model.                                                    *)
(***************************************************************************)
\* longest sample handed to the schema builder in SpecSchema
MaxSample == 4
\* longest table, and largest head / tail, in SpecRead
MaxRows == 3
MaxWindow == 4
\* longest input stream of a forward conversion in Spec
MaxDocs == 3

(***************************************************************************)
(* Dynamic JSON values.  A value is a record: its kind is the reflect type *)
(* encoding/json decodes it to ("null" for nil), elems the kinds of the    *)
(* elements of an array, id a payload that tells equal-kinded values       *)
(* apart.                                                                  *)
(***************************************************************************)
Fields == {"a", "b"}
FieldOrder == <<"a", "b">>

Kinds == {"string", "float64", "bool", "slice", "map"}

Val(k, e, i) == [kind |-> k, elems |-> e, id |-> i]
Null == Val("null", <<>>, 0)
Str1 == Val("string", <<>>, 1)
Num1 == Val("float64", <<>>, 1)
Num2 == Val("float64", <<>>, 2)
BoolT == Val("bool", <<>>, 1)
Obj == Val("map", <<>>, 1)
ArrEmpty == Val("slice", <<>>, 0)
ArrMixed == Val("slice", <<"float64", "string">>, 1)
ArrNulls == Val("slice", <<"null", "float64", "null">>, 2)
\* a floating-point value encoding/json cannot encode (NaN): only a table
\* can hold it, JSON input cannot
NaN == Val("float64", <<>>, -1)

IsNil(v) == v.kind = "null"

\* a row with no, one or two fields
Row0 == [f \in {} |-> Null]
RowA(v) == [f \in {"a"} |-> v]
RowB(v) == [f \in {"b"} |-> v]
RowAB(v, w) == [f \in Fields |-> IF f = "a" THEN v ELSE w]

Min(x, y) == IF x < y THEN x ELSE y
Max(x, y) == IF x > y THEN x ELSE y

(***************************************************************************)
(* Field statistics (fieldAnalysis) and the collector loop of              *)
(* buildOptimizedSchema.  A Go map entry that was never incremented is     *)
(* count 0 here.                                                           *)
(***************************************************************************)
NewFieldAnalysis(name) ==
    [name |-> name, totalCount |-> 0, nullCount |-> 0, nullable |-> FALSE,
     types |-> [k \in Kinds |-> 0], arrayTypes |-> [k \in Kinds |-> 0]]

\* number of elements of kind k in an array: the elem != nil elements are
\* counted under their reflect type
ElemCount(elems, k) == Cardinality({i \in DOMAIN elems : elems[i] = k})

\* a faulty variant: only the first element of an array is analysed
ObserveFirstElement(stats, value) ==
    LET s1 == [stats EXCEPT !.totalCount = @ + 1]
    IN  IF IsNil(value)
        THEN [s1 EXCEPT !.nullCount = @ + 1, !.nullable = TRUE]
        ELSE LET s2 == [s1 EXCEPT !.types[value.kind] = @ + 1]
             IN  IF value.kind = "slice" /\ Len(value.elems) > 0
                 THEN [s2 EXCEPT !.arrayTypes =
                          [k \in Kinds |-> @[k] + ElemCount(SubSeq(value.elems, 1, 1), k)]]
                 ELSE s2

\* a faulty variant: totalCount is incremented after the nil test, so a null
\* is not counted in it
ObserveNullNotInTotal(stats, value) ==
    IF IsNil(value)
    THEN [stats EXCEPT !.nullCount = @ + 1, !.nullable = TRUE]
    ELSE LET s2 == [stats EXCEPT !.totalCount = @ + 1, !.types[value.kind] = @ + 1]
         IN  IF value.kind = "slice" /\ Len(value.elems) > 0
             THEN [s2 EXCEPT !.arrayTypes =
                      [k \in Kinds |-> @[k] + ElemCount(value.elems, k)]]
             ELSE s2

\* the body of the inner loop for one (key, value) of one row
Observe(stats, value) ==
    LET s1 == [stats EXCEPT !.totalCount = @ + 1]
    IN  IF IsNil(value)
        THEN [s1 EXCEPT !.nullCount = @ + 1, !.nullable = TRUE]
        ELSE LET s2 == [s1 EXCEPT !.types[value.kind] = @ + 1]
             IN  IF value.kind = "slice" /\ Len(value.elems) > 0
                 THEN [s2 EXCEPT !.arrayTypes =
                          [k \in Kinds |-> @[k] + ElemCount(value.elems, k)]]
                 ELSE s2

\* statistics of field name after the rows of the sample, in order
RECURSIVE StatsOf(_, _)
StatsOf(name, rows) ==
    IF rows = <<>> THEN NewFieldAnalysis(name)
    ELSE LET n == Len(rows)
             before == StatsOf(name, SubSeq(rows, 1, n - 1))
         IN  IF name \in DOMAIN rows[n] THEN Observe(before, rows[n][name])
             ELSE before

\* a faulty variant: the schema is built from the first row alone
SeenFieldsFirstRow(rows) == IF rows = <<>> THEN {} ELSE DOMAIN rows[1]

\* a faulty variant: a nil value does not create the field's entry
SeenFieldsNonNil(rows) ==
    {f \in Fields : \E i \in DOMAIN rows : f \in DOMAIN rows[i] /\ ~IsNil(rows[i][f])}

\* the keys of fieldStats: the fields some sampled row carries
SeenFields(rows) == {f \in Fields : \E i \in DOMAIN rows : f \in DOMAIN rows[i]}

FieldStats(rows) == [f \in SeenFields(rows) |-> StatsOf(f, rows)]

(***************************************************************************)
(* Schema nodes.  type is the leaf's physical type; repeated and optional  *)
(* record that parquet.Repeated / parquet.Optional were applied to it.     *)
(***************************************************************************)
Leaf(t) == [type |-> t, repeated |-> FALSE, optional |-> FALSE]
String == Leaf("String")
Repeated(node) == [node EXCEPT !.repeated = TRUE]
Optional(node) == [node EXCEPT !.optional = TRUE]

AllKinds == Kinds \cup {"float32", "int", "int64", "int32", "uint8"}

createLeafNode(t) ==
    CASE t = "string" -> String
      [] t = "float64" -> Leaf("Double")
      [] t = "float32" -> Leaf("Float")
      [] t \in {"int", "int64"} -> Leaf("Int64")
      [] t = "int32" -> Leaf("Int32")
      [] t = "bool" -> Leaf("Boolean")
      [] OTHER -> String

\* a faulty variant: the loop forgets to raise maxCount, so the kind iterated last wins
DominantTypesLastWins(stats) ==
    IF \A k \in Kinds : stats.types[k] = 0 THEN {"nil"}
    ELSE {k \in Kinds : stats.types[k] > 0}

\* the values dominantType can have after the loop over stats.types: Go
\* iterates a map in an unspecified order and the first kind that reaches
\* the highest count is kept, so any kind of highest count can win; "nil"
\* when the map is empty
DominantTypes(stats) ==
    IF \A k \in Kinds : stats.types[k] = 0 THEN {"nil"}
    ELSE {k \in Kinds : stats.types[k] > 0
                        /\ \A k2 \in Kinds : stats.types[k2] <= stats.types[k]}

\* a faulty variant: every node is wrapped in parquet.Optional
IsOptionalAlways(stats) == TRUE

\* the condition under which the node is wrapped in parquet.Optional
IsOptional(stats) == stats.nullable \/ stats.nullCount > 0

\* the node built once the loop has settled on dominantType
NodeFor(stats, dominantType) ==
    LET node == IF dominantType # "nil" /\ dominantType = "slice"
                THEN Repeated(String)
                ELSE IF dominantType # "nil" THEN createLeafNode(dominantType)
                ELSE String
    IN  IF IsOptional(stats) THEN Optional(node) ELSE node

\* every node buildNodeFromStats can return for these statistics
buildNodeFromStats(stats) == {NodeFor(stats, d) : d \in DominantTypes(stats)}

NoSchema == [f \in {} |-> String]

\* fieldStats := make(map[string]*fieldAnalysis)
NoFieldStats == [f \in {} |-> NewFieldAnalysis(f)]

\* a faulty variant: the len(sampleRows) == 0 test is missing
buildOptimizedSchemaNoRowsTest(rows) ==
    LET fieldStats == FieldStats(rows)
    IN  {[err |-> "nil", schema |-> s] :
            s \in {g \in [DOMAIN fieldStats ->
                             UNION {buildNodeFromStats(fieldStats[f]) :
                                       f \in DOMAIN fieldStats}] :
                     \A f \in DOMAIN fieldStats :
                         g[f] \in buildNodeFromStats(fieldStats[f])}}

\* a faulty variant: the test reads len(sampleRows) <= 1, so a sample of one
\* row is refused as well
buildOptimizedSchemaOneRowRefused(rows) ==
    IF Len(rows) <= 1
    THEN {[err |-> "no sample rows provided", schema |-> NoSchema]}
    ELSE buildOptimizedSchemaNoRowsTest(rows)

\* every result buildOptimizedSchema can return for this sample
buildOptimizedSchema(rows) ==
    IF Len(rows) = 0
    THEN {[err |-> "no sample rows provided", schema |-> NoSchema]}
    ELSE LET fieldStats == FieldStats(rows)
         IN  {[err |-> "nil", schema |-> s] :
                 s \in {g \in [DOMAIN fieldStats ->
                                  UNION {buildNodeFromStats(fieldStats[f]) :
                                            f \in DOMAIN fieldStats}] :
                          \A f \in DOMAIN fieldStats :
                              g[f] \in buildNodeFromStats(fieldStats[f])}}

(***************************************************************************)
(* JSON text.  A document is the sequence of its members, in sorted key    *)
(* order as encoding/json writes a map; a member's value is a JSON token.  *)
(* A truncated document has a member whose value is cut off.               *)
(***************************************************************************)
JsonOf(kind) ==
    CASE kind = "null" -> "null"
      [] kind = "string" -> "string"
      [] kind = "float64" -> "number"
      [] kind = "bool" -> "boolean"
      [] kind = "slice" -> "array"
      [] kind = "map" -> "object"

KindOf(json) ==
    CASE json = "null" -> "null"
      [] json = "string" -> "string"
      [] json = "number" -> "float64"
      [] json = "boolean" -> "bool"
      [] json = "array" -> "slice"
      [] json = "object" -> "map"

JsonElems(elems) == [i \in DOMAIN elems |-> JsonOf(elems[i])]
KindElems(elems) == [i \in DOMAIN elems |-> KindOf(elems[i])]

EncodeValue(v) == [json |-> JsonOf(v.kind), elems |-> JsonElems(v.elems), id |-> v.id]
DecodeValue(t) == Val(KindOf(t.json), KindElems(t.elems), t.id)

\* json.Encoder.Encode fails on a row that holds an unsupported value
Encodable(row) == \A f \in DOMAIN row : row[f] # NaN

SortedKeys(row) == SelectSeq(FieldOrder, LAMBDA f : f \in DOMAIN row)

\* the line json.Encoder.Encode writes for a row
EncodeRow(row) ==
    LET keys == SortedKeys(row)
    IN  [i \in DOMAIN keys |-> [key |-> keys[i], value |-> EncodeValue(row[keys[i]])]]

\* the document `{"a":` : its last member is cut off
BadDoc == <<[key |-> "a", value |-> [json |-> "truncated", elems |-> <<>>, id |-> 0]]>>

\* json.Decoder.Decode returns an error for a document with a cut-off member
Malformed(doc) == \E i \in DOMAIN doc : doc[i].value.json = "truncated"

\* the map json.Decoder.Decode fills for a well-formed document
DecodeDoc(doc) ==
    [f \in {doc[i].key : i \in DOMAIN doc} |->
        DecodeValue(doc[CHOOSE i \in DOMAIN doc : doc[i].key = f].value)]

(***************************************************************************)
(* The bytes of a columnar file, as the chunks the parquet writer emits:   *)
(* the magic, row groups, and the footer that declares the schema and the  *)
(* number of rows.                                                         *)
(***************************************************************************)
Magic == [tag |-> "PAR1", rows |-> <<>>, numRows |-> 0, columns |-> {}]
RowGroup(rows) == [tag |-> "rowgroup", rows |-> rows, numRows |-> Len(rows), columns |-> {}]
Footer(n, columns) == [tag |-> "footer", rows |-> <<>>, numRows |-> n, columns |-> columns]

RECURSIVE Concat(_)
Concat(seqs) == IF seqs = <<>> THEN <<>> ELSE Head(seqs) \o Concat(Tail(seqs))

\* parquet.OpenFile: the data must start with the magic and end with a footer
OpenFails(data) ==
    \/ Len(data) < 2
    \/ data[1].tag # "PAR1"
    \/ data[Len(data)].tag # "footer"

\* the *parquet.File: NumRows() is the footer's count, rows what the row
\* groups hold
OpenFile(data) ==
    [numRows |-> data[Len(data)].numRows,
     rows |-> Concat([i \in 1 .. Len(data) - 2 |-> data[i + 1].rows])]

\* reader.Read(allRows) on a buffer of numRows rows: the rows the file
\* holds (at most numRows of them), or an error of the underlying reader
ReadOutcomes(pr) ==
    {[n |-> Min(pr.numRows, Len(pr.rows)), err |-> e] : e \in {"nil", "EOF"}}
    \cup {[n |-> k, err |-> "unexpected EOF"] : k \in 0 .. Min(pr.numRows, Len(pr.rows))}

(***************************************************************************)
(* fromParquet: the row projection.                                        *)
(***************************************************************************)
\* a faulty variant: the head window is taken from the end of the table
HeadRowsFromEnd(allRows, h) ==
    LET end == IF h > Len(allRows) THEN Len(allRows) ELSE h
    IN  SubSeq(allRows, Len(allRows) - end + 1, Len(allRows))

\* allRows[:end] with end clamped to len(allRows)
HeadRows(allRows, h) ==
    LET end == IF h > Len(allRows) THEN Len(allRows) ELSE h
    IN  SubSeq(allRows, 1, end)

\* a faulty variant: the clamp of start is missing one row
TailRowsOffByOne(allRows, t) ==
    LET start == IF Len(allRows) - t < 0 THEN 0 ELSE Len(allRows) - t
    IN  SubSeq(allRows, start + 2, Len(allRows))

\* allRows[start:] with start clamped to 0
TailRows(allRows, t) ==
    LET start == IF Len(allRows) - t < 0 THEN 0 ELSE Len(allRows) - t
    IN  SubSeq(allRows, start + 1, Len(allRows))

\* a faulty variant: a non-positive head is treated as a window of no rows
RowsToOutputZeroHead(allRows, h, t) ==
    IF h > 0 THEN HeadRows(allRows, h)
    ELSE IF t > 0 THEN TailRows(allRows, t)
    ELSE HeadRows(allRows, Max(h, 0))

\* a faulty variant: tail is tested before head
RowsToOutputTailFirst(allRows, h, t) ==
    IF t > 0 THEN TailRows(allRows, t)
    ELSE IF h > 0 THEN HeadRows(allRows, h)
    ELSE allRows

\* the head/tail logic
RowsToOutput(allRows, h, t) ==
    IF h > 0 THEN HeadRows(allRows, h)
    ELSE IF t > 0 THEN TailRows(allRows, t)
    ELSE allRows

\* the number of rows encoded before the first row Encode fails on
RECURSIVE EncodedCount(_)
EncodedCount(rows) ==
    IF rows = <<>> \/ ~Encodable(Head(rows)) THEN 0
    ELSE 1 + EncodedCount(Tail(rows))

\* a faulty variant: rows are read and projected even when NumRows() is zero
fromParquetNoEmptyCheck(pr, rd, h, t) ==
    IF rd.err # "nil" /\ rd.err # "EOF"
    THEN [err |-> "reading parquet data", out |-> <<>>]
    ELSE LET allRows == SubSeq(pr.rows, 1, rd.n)
             rowsToOutput == RowsToOutput(allRows, h, t)
             k == EncodedCount(rowsToOutput)
         IN  [err |-> IF k < Len(rowsToOutput) THEN "encoding json" ELSE "nil",
              out |-> [x \in 1 .. k |-> EncodeRow(rowsToOutput[x])]]

\* fromParquet(w, pr, head, tail), given the outcome rd of reader.Read:
\* the error returned and the lines flushed to w
fromParquet(pr, rd, h, t) ==
    IF pr.numRows = 0 THEN [err |-> "nil", out |-> <<>>]
    ELSE IF rd.err # "nil" /\ rd.err # "EOF"
    THEN [err |-> "reading parquet data", out |-> <<>>]
    ELSE LET allRows == SubSeq(pr.rows, 1, rd.n)
             rowsToOutput == RowsToOutput(allRows, h, t)
             k == EncodedCount(rowsToOutput)
         IN  [err |-> IF k < Len(rowsToOutput) THEN "encoding json" ELSE "nil",
              out |-> [x \in 1 .. k |-> EncodeRow(rowsToOutput[x])]]

(***************************************************************************)
(* State.                                                                  *)
(***************************************************************************)
VARIABLES
    pc,          \* the position of the running call
    result,      \* the error a forward conversion or the schema builder returned
    sampleRows,  \* the rows the schema is inferred from
    schema,      \* the schema built
    fieldStats,  \* the statistics the collector loop gathered, by field
    data,        \* the bytes handed to the reverse conversion
    head,        \* --head
    tail,        \* --tail
    rresult,     \* the error the reverse conversion returned
    out,         \* the lines the reverse conversion wrote to w
    strategy,    \* the forward function called
    input,       \* the documents of the input stream r
    config,      \* config.MaxRowsPerRowGroup
    tempFile,    \* the temporary file: exists, open, its documents, and how
                 \* os.Remove on it ended ("none" while it was not called)
    pos,         \* the number of documents the current decoder has consumed
    allRows,     \* the rows decoded so far (buffered strategy)
    batch,       \* the batch being written
    i,           \* the start of the batch in allRows
    j,           \* the number of rows of the batch handed to the writer
    writer,      \* the parquet writer: its state, buffered rows, rows handed
    sink,        \* the chunks written to w
    decoded,     \* history: the rows decoded from the input stream, in order
    decodeFailed, \* history: a document of the input stream failed to decode
    eof,         \* history: the decoder of the input stream returned io.EOF
    cli          \* the command line: the number of file arguments, --output,
                 \* --streaming, the output file, the conversion called

schemaVars == <<sampleRows, schema, fieldStats>>
readVars == <<data, head, tail, rresult, out>>
fwdVars == <<strategy, input, config, tempFile, pos, allRows, batch, i, j,
             writer, sink, decoded, decodeFailed, eof>>
vars == <<pc, result, sampleRows, schema, fieldStats, data, head, tail, rresult, out,
          strategy, input, config, tempFile, pos, allRows, batch, i, j,
          writer, sink, decoded, decodeFailed, eof, cli>>

SeqsUpTo(S, n) == UNION {[1 .. k -> S] : k \in 0 .. n}

IdleSchema == sampleRows = <<>> /\ schema = NoSchema /\ fieldStats = NoFieldStats
IdleRead == data = <<>> /\ head = 0 /\ tail = 0 /\ rresult = "none" /\ out = <<>>

NoTemp == [exists |-> FALSE, open |-> FALSE, content |-> <<>>, removal |-> "none"]
NoWriter == [state |-> "none", buffered |-> <<>>, rows |-> <<>>]

\* no command line: the functions are called directly
NoCli == [args |-> 0, outputPath |-> "", enableStreaming |-> FALSE,
          outputFile |-> "none", called |-> "none"]

IdleForward ==
    /\ strategy = "none"
    /\ input = <<>>
    /\ config = 0
    /\ tempFile = NoTemp
    /\ pos = 0
    /\ allRows = <<>>
    /\ batch = <<>>
    /\ i = 0
    /\ j = 0
    /\ writer = NoWriter
    /\ sink = <<>>
    /\ decoded = <<>>
    /\ decodeFailed = FALSE
    /\ eof = FALSE

(***************************************************************************)
(* SpecSchema: a caller collects sample rows and calls                     *)
(* buildOptimizedSchema on them.                                           *)
(***************************************************************************)
\* the rows a sample is drawn from
SchemaRows ==
    {Row0, RowA(Str1), RowA(Num1), RowA(Null), RowAB(BoolT, Str1),
     RowAB(ArrMixed, Null), RowAB(Obj, Num1), RowB(ArrNulls), RowAB(Str1, ArrEmpty),
     RowAB(Num2, Null)}

InitSchema ==
    /\ pc = "collect"
    /\ cli = NoCli
    /\ result = "none"
    /\ IdleSchema
    /\ IdleRead
    /\ IdleForward

\* sampleRows = append(sampleRows, row)
AppendSample ==
    /\ pc = "collect"
    /\ Len(sampleRows) < MaxSample
    /\ \E row \in SchemaRows : sampleRows' = Append(sampleRows, row)
    /\ UNCHANGED <<cli, pc, result, schema, fieldStats, readVars, fwdVars>>

\* schema, err := buildOptimizedSchema(sampleRows)
BuildSchema ==
    /\ pc = "collect"
    /\ \E r \in buildOptimizedSchema(sampleRows) :
          /\ schema' = r.schema
          /\ result' = r.err
          /\ fieldStats' = IF r.err = "nil" THEN FieldStats(sampleRows) ELSE fieldStats
    /\ pc' = "built"
    /\ UNCHANGED <<cli, sampleRows, readVars, fwdVars>>

NextSchema == AppendSample \/ BuildSchema

SpecSchema == InitSchema /\ [][NextSchema]_vars

(***************************************************************************)
(* SpecRead: FromParquet / FromParquetFile on arbitrary bytes.             *)
(***************************************************************************)
\* the rows a table is made of: every row carries every column
TableRows == {RowAB(Num1, Str1), RowAB(Num2, Null), RowAB(NaN, Str1)}

\* a well-formed file of the rows, whose footer declares n rows
File(rows, n) ==
    IF rows = <<>> THEN <<Magic, Footer(n, Fields)>>
    ELSE <<Magic, RowGroup(rows), Footer(n, Fields)>>

\* the inputs: no bytes, bytes that are no parquet file, files that hold
\* as many rows as they declare, and files that hold fewer
ReadInputs ==
    {<<>>, <<Magic>>}
    \cup {File(rows, n) : rows \in SeqsUpTo(TableRows, MaxRows), n \in 0 .. MaxRows}

InitRead ==
    /\ pc = "call"
    /\ cli = NoCli
    /\ result = "none"
    /\ IdleSchema
    /\ data \in {d \in ReadInputs : OpenFails(d) \/ Len(OpenFile(d).rows) <= OpenFile(d).numRows}
    /\ head \in -1 .. MaxWindow
    /\ tail \in -1 .. MaxWindow
    /\ rresult = "none"
    /\ out = <<>>
    /\ IdleForward

\* a faulty variant: the len(data) == 0 test is missing
EmptyDataNever(d) == FALSE

\* len(data) == 0
EmptyData(d) == Len(d) = 0

\* FromParquet(w, r, head, tail) with r yielding data
FromParquet ==
    /\ pc = "call"
    /\ IF EmptyData(data)
       THEN rresult' = "empty input" /\ out' = <<>>
       ELSE IF OpenFails(data)
       THEN rresult' = "opening parquet data" /\ out' = <<>>
       ELSE \E rd \in ReadOutcomes(OpenFile(data)) :
               LET r == fromParquet(OpenFile(data), rd, head, tail)
               IN  rresult' = r.err /\ out' = r.out
    /\ pc' = "projected"
    /\ UNCHANGED <<cli, result, schemaVars, data, head, tail, fwdVars>>

\* FromParquetFile(w, filePath, head, tail) with the file holding data
FromParquetFile ==
    /\ pc = "call"
    /\ IF OpenFails(data)
       THEN rresult' = "opening parquet file" /\ out' = <<>>
       ELSE \E rd \in ReadOutcomes(OpenFile(data)) :
               LET r == fromParquet(OpenFile(data), rd, head, tail)
               IN  rresult' = r.err /\ out' = r.out
    /\ pc' = "projected"
    /\ UNCHANGED <<cli, result, schemaVars, data, head, tail, fwdVars>>

NextRead == FromParquet \/ FromParquetFile

SpecRead == InitRead /\ [][NextRead]_vars

(***************************************************************************)
(* The parquet writer, as the forward conversions use it.                  *)
(***************************************************************************)
\* const sampleSize, scaled down
sampleSize == 2
\* const batchSize of toParquetOptimized, scaled down
batchSize == 2
\* const batchSize of StreamingToParquet, scaled down
streamBatchSize == 2
\* the largest config.MaxRowsPerRowGroup tried
MaxGroupRows == 2

\* parquet.NewWriter(w, writerConfig): nothing is written yet
NewWriter == [state |-> "open", buffered |-> <<>>, rows |-> <<>>]

\* what a column holds for a row that gives it no value: null when the
\* column is optional, no element when it is repeated, and the zero value
\* of its type when it is required (a required column has no way to hold
\* a null)
NoValue(node) ==
    IF node.optional THEN Null
    ELSE IF node.repeated THEN ArrEmpty
    ELSE CASE node.type = "Boolean" -> Val("bool", <<>>, 0)
           [] node.type = "String" -> Val("string", <<>>, 0)
           [] OTHER -> Val("float64", <<>>, 0)

\* the row as the file holds it: one value per column of the schema
StoredRow(sch, row) ==
    [c \in DOMAIN sch |->
        IF c \in DOMAIN row /\ ~IsNil(row[c]) THEN row[c] ELSE NoValue(sch[c])]

\* the chunks a flush of the buffered rows adds to what w holds
Flush(snk, buffered) ==
    (IF snk = <<>> THEN <<Magic>> ELSE <<>>)
    \o (IF buffered = <<>> THEN <<>> ELSE <<RowGroup(buffered)>>)

\* writer.Write(row) succeeding: the row is buffered, and a full row group
\* is flushed to w
WriteRow(w, snk, sch, maxRows, row) ==
    LET buffered == Append(w.buffered, StoredRow(sch, row))
        full == Len(buffered) >= maxRows
    IN  [writer |-> [w EXCEPT !.buffered = IF full THEN <<>> ELSE buffered,
                              !.rows = Append(w.rows, row)],
         sink |-> IF full THEN snk \o Flush(snk, buffered) ELSE snk]

\* a faulty variant: Close is also deferred, so the writer is closed twice
CloseWriterTwice(w, snk, sch) ==
    [writer |-> [w EXCEPT !.state = "closed", !.buffered = <<>>],
     sink |-> snk \o Flush(snk, w.buffered) \o <<Footer(Len(w.rows), DOMAIN sch)>>
                  \o <<Footer(Len(w.rows), DOMAIN sch)>>]

\* writer.Close() succeeding: the rest is flushed and the footer written
CloseWriter(w, snk, sch) ==
    [writer |-> [w EXCEPT !.state = "closed", !.buffered = <<>>],
     sink |-> snk \o Flush(snk, w.buffered) \o <<Footer(Len(w.rows), DOMAIN sch)>>]

\* a faulty variant: the deferred function closes the file and forgets os.Remove
DeferredCloseOnly(t) == {[t EXCEPT !.open = FALSE]}

\* the deferred tempFile.Close(); os.Remove(tempFile.Name()): the removal
\* can fail, and its error is dropped
Deferred(t) ==
    {[t EXCEPT !.open = FALSE, !.exists = FALSE, !.removal = "ok"],
     [t EXCEPT !.open = FALSE, !.removal = "failed"]}

\* a faulty variant: the empty-input check is missing
EmptyInputNever(rows) == FALSE

\* len(allRows) == 0, len(sampleRows) == 0: empty input is valid
EmptyInput(rows) == Len(rows) = 0

\* a faulty variant: the decode error is dropped and nil returned
ErrDecodeDropped == "nil"

\* fmt.Errorf("decoding json: %w", err)
ErrDecode == "decoding json"

\* a faulty variant: end is one short, so the last row of every batch is skipped
BatchAtShort(rows, start) ==
    SubSeq(rows, start + 1, Min(start + batchSize, Len(rows)) - 1)

\* batch := allRows[i:end] with end := min(i+batchSize, len(allRows))
BatchAt(rows, start) ==
    SubSeq(rows, start + 1, Min(start + batchSize, Len(rows)))

\* a faulty variant: the loop condition reads len(sampleRows) <= sampleSize
SampleFullOneLate(rows) == Len(rows) > sampleSize

\* the negation of the loop condition len(sampleRows) < sampleSize
SampleFull(rows) == Len(rows) >= sampleSize

\* return err, running the deferred cleanup of the temporary file t
Return(err, t) ==
    /\ result' = err
    /\ pc' = "done"
    /\ tempFile' \in Deferred(t)

(***************************************************************************)
(* Spec: one forward conversion of an input stream.                        *)
(***************************************************************************)
\* the rows the input documents encode
InputRows ==
    {Row0, RowA(Num1), RowAB(Str1, Null), RowA(ArrMixed), RowB(Num2),
     RowAB(BoolT, Obj)}

Docs == {EncodeRow(r) : r \in InputRows} \cup {BadDoc}

Init ==
    /\ pc = "start"
    /\ cli = NoCli
    /\ result = "none"
    /\ IdleSchema
    /\ IdleRead
    /\ strategy \in {"toParquetOptimized", "StreamingToParquet"}
    /\ input \in SeqsUpTo(Docs, MaxDocs)
    /\ config \in 1 .. MaxGroupRows
    /\ tempFile = NoTemp
    /\ pos = 0
    /\ allRows = <<>>
    /\ batch = <<>>
    /\ i = 0
    /\ j = 0
    /\ writer = NoWriter
    /\ sink = <<>>
    /\ decoded = <<>>
    /\ decodeFailed = FALSE
    /\ eof = FALSE

(***************************************************************************)
(* toParquetOptimized (ToParquet, ToParquetWithConfig): the buffered       *)
(* strategy.                                                               *)
(***************************************************************************)
\* os.CreateTemp
Opt_CreateTemp ==
    /\ strategy = "toParquetOptimized" /\ pc = "start"
    /\ \E ok \in BOOLEAN :
          IF ok
          THEN /\ tempFile' = [NoTemp EXCEPT !.exists = TRUE, !.open = TRUE]
               /\ pc' = "copy"
               /\ UNCHANGED result
          ELSE /\ result' = "creating temp file"
               /\ pc' = "done"
               /\ UNCHANGED tempFile
    /\ UNCHANGED <<cli, schemaVars, readVars, strategy, input, config, pos, allRows,
                   batch, i, j, writer, sink, decoded, decodeFailed, eof>>

\* io.Copy(tempFile, r): all of the input, or an error after part of it
Opt_Copy ==
    /\ strategy = "toParquetOptimized" /\ pc = "copy"
    /\ \E n \in 0 .. Len(input) :
          LET t == [tempFile EXCEPT !.content = SubSeq(input, 1, n)]
          IN  \/ /\ n = Len(input)
                 /\ tempFile' = t
                 /\ pc' = "seek"
                 /\ UNCHANGED result
              \/ Return("copying input to temp file", t)
    /\ UNCHANGED <<cli, schemaVars, readVars, strategy, input, config, pos, allRows,
                   batch, i, j, writer, sink, decoded, decodeFailed, eof>>

\* tempFile.Seek(0, 0) and json.NewDecoder(tempFile)
Opt_Seek ==
    /\ strategy = "toParquetOptimized" /\ pc = "seek"
    /\ \/ /\ pos' = 0
          /\ pc' = "decode"
          /\ UNCHANGED <<result, tempFile>>
       \/ /\ Return("seeking temp file", tempFile)
          /\ UNCHANGED pos
    /\ UNCHANGED <<cli, schemaVars, readVars, strategy, input, config, allRows,
                   batch, i, j, writer, sink, decoded, decodeFailed, eof>>

\* one turn of the decode loop; at io.EOF the empty-input check
Opt_Decode ==
    /\ strategy = "toParquetOptimized" /\ pc = "decode"
    /\ IF pos = Len(tempFile.content)
       THEN /\ IF EmptyInput(allRows)
               THEN Return("nil", tempFile)
               ELSE pc' = "schema" /\ UNCHANGED <<result, tempFile>>
            /\ eof' = TRUE
            /\ UNCHANGED <<pos, allRows, decoded, decodeFailed>>
       ELSE IF Malformed(tempFile.content[pos + 1])
       THEN /\ Return(ErrDecode, tempFile)
            /\ decodeFailed' = TRUE
            /\ UNCHANGED <<pos, allRows, decoded, eof>>
       ELSE /\ allRows' = Append(allRows, DecodeDoc(tempFile.content[pos + 1]))
            /\ decoded' = Append(decoded, DecodeDoc(tempFile.content[pos + 1]))
            /\ pos' = pos + 1
            /\ UNCHANGED <<pc, result, tempFile, decodeFailed, eof>>
    /\ UNCHANGED <<cli, schemaVars, readVars, strategy, input, config,
                   batch, i, j, writer, sink>>

\* buildOptimizedSchema(allRows), parquet.NewWriter, and the first batch
Opt_BuildSchema ==
    /\ strategy = "toParquetOptimized" /\ pc = "schema"
    /\ \E r \in buildOptimizedSchema(allRows) :
          IF r.err # "nil"
          THEN /\ Return("building schema", tempFile)
               /\ UNCHANGED <<schema, fieldStats, writer, i, j, batch>>
          ELSE /\ schema' = r.schema
               /\ fieldStats' = FieldStats(allRows)
               /\ writer' = NewWriter
               /\ i' = 0
               /\ j' = 0
               /\ batch' = BatchAt(allRows, 0)
               /\ pc' = "write"
               /\ UNCHANGED <<result, tempFile>>
    /\ UNCHANGED <<cli, sampleRows, readVars, strategy, input, config, pos, allRows,
                   sink, decoded, decodeFailed, eof>>

\* writer.Write(row) for the next row of the batch; after the last row of
\* a batch, the next batch allRows[i:end]
Opt_Write ==
    /\ strategy = "toParquetOptimized" /\ pc = "write"
    /\ IF j < Len(batch)
       THEN \E ok \in BOOLEAN :
               IF ok
               THEN LET w == WriteRow(writer, sink, schema, config, batch[j + 1])
                    IN  /\ writer' = w.writer
                        /\ sink' = w.sink
                        /\ j' = j + 1
                        /\ UNCHANGED <<pc, result, tempFile, i, batch>>
               ELSE /\ Return("writing row to parquet", tempFile)
                    /\ UNCHANGED <<writer, sink, i, j, batch>>
       ELSE /\ i' = i + batchSize
            /\ IF i' < Len(allRows)
               THEN /\ batch' = BatchAt(allRows, i')
                    /\ j' = 0
                    /\ UNCHANGED pc
               ELSE /\ pc' = "close"
                    /\ UNCHANGED <<batch, j>>
            /\ UNCHANGED <<result, tempFile, writer, sink>>
    /\ UNCHANGED <<cli, schemaVars, readVars, strategy, input, config, pos, allRows,
                   decoded, decodeFailed, eof>>

\* return writer.Close()
Opt_Close ==
    /\ strategy = "toParquetOptimized" /\ pc = "close"
    /\ \E ok \in BOOLEAN :
          IF ok
          THEN LET w == CloseWriter(writer, sink, schema)
               IN  /\ writer' = w.writer
                   /\ sink' = w.sink
                   /\ Return("nil", tempFile)
          ELSE /\ Return("closing writer", tempFile)
               /\ UNCHANGED <<writer, sink>>
    /\ UNCHANGED <<cli, schemaVars, readVars, strategy, input, config, pos, allRows,
                   batch, i, j, decoded, decodeFailed, eof>>

(***************************************************************************)
(* StreamingToParquet: the sampled strategy.                               *)
(***************************************************************************)
\* os.CreateTemp and json.NewDecoder(r)
Str_CreateTemp ==
    /\ strategy = "StreamingToParquet" /\ pc = "start"
    /\ \E ok \in BOOLEAN :
          IF ok
          THEN /\ tempFile' = [NoTemp EXCEPT !.exists = TRUE, !.open = TRUE]
               /\ pc' = "sample"
               /\ UNCHANGED result
          ELSE /\ result' = "creating temp file"
               /\ pc' = "done"
               /\ UNCHANGED tempFile
    /\ UNCHANGED <<cli, schemaVars, readVars, strategy, input, config, pos, allRows,
                   batch, i, j, writer, sink, decoded, decodeFailed, eof>>

\* one turn of the first loop: while len(sampleRows) < sampleSize, decode a
\* row, append it to the sample and encode it to the temporary file
Str_Sample ==
    /\ strategy = "StreamingToParquet" /\ pc = "sample"
    /\ IF SampleFull(sampleRows) \/ pos = Len(input)
       THEN /\ pc' = "rest"
            /\ eof' = ~SampleFull(sampleRows)
            /\ UNCHANGED <<result, tempFile, pos, sampleRows, decoded, decodeFailed>>
       ELSE IF Malformed(input[pos + 1])
       THEN /\ Return("decoding json for sampling", tempFile)
            /\ decodeFailed' = TRUE
            /\ UNCHANGED <<pos, sampleRows, decoded, eof>>
       ELSE LET row == DecodeDoc(input[pos + 1])
            IN  /\ pos' = pos + 1
                /\ sampleRows' = Append(sampleRows, row)
                /\ decoded' = Append(decoded, row)
                /\ UNCHANGED <<decodeFailed, eof>>
                /\ \E ok \in BOOLEAN :
                      IF ok
                      THEN /\ tempFile' = [tempFile EXCEPT !.content = Append(@, EncodeRow(row))]
                           /\ UNCHANGED <<pc, result>>
                      ELSE Return("writing to temp file", tempFile)
    /\ UNCHANGED <<cli, schema, fieldStats, readVars, strategy, input, config,
                   allRows, batch, i, j, writer, sink>>

\* one turn of the second loop: decode a row and encode it to the temporary
\* file; at io.EOF the empty-input check
Str_Rest ==
    /\ strategy = "StreamingToParquet" /\ pc = "rest"
    /\ IF pos = Len(input)
       THEN /\ IF EmptyInput(sampleRows)
               THEN Return("nil", tempFile)
               ELSE pc' = "schema" /\ UNCHANGED <<result, tempFile>>
            /\ eof' = TRUE
            /\ UNCHANGED <<pos, decoded, decodeFailed>>
       ELSE IF Malformed(input[pos + 1])
       THEN /\ Return(ErrDecode, tempFile)
            /\ decodeFailed' = TRUE
            /\ UNCHANGED <<pos, decoded, eof>>
       ELSE LET row == DecodeDoc(input[pos + 1])
            IN  /\ pos' = pos + 1
                /\ decoded' = Append(decoded, row)
                /\ UNCHANGED <<decodeFailed, eof>>
                /\ \E ok \in BOOLEAN :
                      IF ok
                      THEN /\ tempFile' = [tempFile EXCEPT !.content = Append(@, EncodeRow(row))]
                           /\ UNCHANGED <<pc, result>>
                      ELSE Return("writing to temp file", tempFile)
    /\ UNCHANGED <<cli, schemaVars, readVars, strategy, input, config, allRows,
                   batch, i, j, writer, sink>>

\* buildOptimizedSchema(sampleRows) and parquet.NewWriter
Str_BuildSchema ==
    /\ strategy = "StreamingToParquet" /\ pc = "schema"
    /\ \E r \in buildOptimizedSchema(sampleRows) :
          IF r.err # "nil"
          THEN /\ Return("building schema", tempFile)
               /\ UNCHANGED <<schema, fieldStats, writer>>
          ELSE /\ schema' = r.schema
               /\ fieldStats' = FieldStats(sampleRows)
               /\ writer' = NewWriter
               /\ pc' = "seek"
               /\ UNCHANGED <<result, tempFile>>
    /\ UNCHANGED <<cli, sampleRows, readVars, strategy, input, config, pos, allRows,
                   batch, i, j, sink, decoded, decodeFailed, eof>>

\* a faulty variant: the temporary file is not rewound before the replay
Str_SeekNoRewind ==
    /\ strategy = "StreamingToParquet" /\ pc = "seek"
    /\ \/ /\ batch' = <<>>
          /\ pc' = "batch"
          /\ UNCHANGED <<result, tempFile, pos>>
       \/ /\ Return("seeking temp file", tempFile)
          /\ UNCHANGED <<pos, batch>>
    /\ UNCHANGED <<cli, schemaVars, readVars, strategy, input, config, allRows,
                   i, j, writer, sink, decoded, decodeFailed, eof>>

\* tempFile.Seek(0, 0) and json.NewDecoder(tempFile)
Str_Seek ==
    /\ strategy = "StreamingToParquet" /\ pc = "seek"
    /\ \/ /\ pos' = 0
          /\ batch' = <<>>
          /\ pc' = "batch"
          /\ UNCHANGED <<result, tempFile>>
       \/ /\ Return("seeking temp file", tempFile)
          /\ UNCHANGED <<pos, batch>>
    /\ UNCHANGED <<cli, schemaVars, readVars, strategy, input, config, allRows,
                   i, j, writer, sink, decoded, decodeFailed, eof>>

\* one turn of the loop that fills a batch from the temporary file; when
\* the batch is full or the file is at its end, the batch is written, and
\* an empty batch ends the replay
Str_FillBatch ==
    /\ strategy = "StreamingToParquet" /\ pc = "batch"
    /\ IF Len(batch) < streamBatchSize /\ pos < Len(tempFile.content)
       THEN IF Malformed(tempFile.content[pos + 1])
            THEN /\ Return(ErrDecode, tempFile)
                 /\ UNCHANGED <<pos, batch, j>>
            ELSE /\ batch' = Append(batch, DecodeDoc(tempFile.content[pos + 1]))
                 /\ pos' = pos + 1
                 /\ UNCHANGED <<pc, result, tempFile, j>>
       ELSE /\ pc' = IF Len(batch) = 0 THEN "close" ELSE "write"
            /\ j' = 0
            /\ UNCHANGED <<result, tempFile, pos, batch>>
    /\ UNCHANGED <<cli, schemaVars, readVars, strategy, input, config, allRows,
                   i, writer, sink, decoded, decodeFailed, eof>>

\* writer.Write(row) for the next row of the batch
Str_Write ==
    /\ strategy = "StreamingToParquet" /\ pc = "write"
    /\ IF j < Len(batch)
       THEN \E ok \in BOOLEAN :
               IF ok
               THEN LET w == WriteRow(writer, sink, schema, config, batch[j + 1])
                    IN  /\ writer' = w.writer
                        /\ sink' = w.sink
                        /\ j' = j + 1
                        /\ UNCHANGED <<pc, result, tempFile, batch>>
               ELSE /\ Return("writing row to parquet", tempFile)
                    /\ UNCHANGED <<writer, sink, j, batch>>
       ELSE /\ batch' = <<>>
            /\ pc' = "batch"
            /\ UNCHANGED <<result, tempFile, writer, sink, j>>
    /\ UNCHANGED <<cli, schemaVars, readVars, strategy, input, config, pos, allRows,
                   i, decoded, decodeFailed, eof>>

\* return writer.Close()
Str_Close ==
    /\ strategy = "StreamingToParquet" /\ pc = "close"
    /\ \E ok \in BOOLEAN :
          IF ok
          THEN LET w == CloseWriter(writer, sink, schema)
               IN  /\ writer' = w.writer
                   /\ sink' = w.sink
                   /\ Return("nil", tempFile)
          ELSE /\ Return("closing writer", tempFile)
               /\ UNCHANGED <<writer, sink>>
    /\ UNCHANGED <<cli, schemaVars, readVars, strategy, input, config, pos, allRows,
                   batch, i, j, decoded, decodeFailed, eof>>

(***************************************************************************)
(* The round trip of TestRoundTrip: what a successful forward conversion   *)
(* wrote is handed to FromParquet with head = 0 and tail = 0.              *)
(***************************************************************************)
RoundTrip ==
    /\ pc = "done" /\ result = "nil"
    /\ data' = sink
    /\ head' = 0
    /\ tail' = 0
    /\ pc' = "call"
    /\ UNCHANGED <<cli, result, schemaVars, rresult, out, fwdVars>>

Next ==
    \/ Opt_CreateTemp \/ Opt_Copy \/ Opt_Seek \/ Opt_Decode
    \/ Opt_BuildSchema \/ Opt_Write \/ Opt_Close
    \/ Str_CreateTemp \/ Str_Sample \/ Str_Rest \/ Str_BuildSchema
    \/ Str_Seek \/ Str_FillBatch \/ Str_Write \/ Str_Close
    \/ RoundTrip \/ FromParquet

Spec == Init /\ [][Next]_vars

(***************************************************************************)
(* SpecCli: one run of the command (rootCmd.RunE) with at most one file    *)
(* argument, the flags --head, --tail, --output, --streaming and           *)
(* --max-rows-per-group, standard input holding input, and the file named  *)
(* by the argument holding data.                                           *)
(***************************************************************************)
\* the longest standard input tried
MaxCliDocs == 2

\* the documents standard input is made of
CliDocs == {EncodeRow(RowA(Num1)), EncodeRow(RowAB(Str1, Null)), BadDoc}

\* the files the argument can name
CliFiles ==
    {<<>>, File(<<>>, 0), File(<<RowAB(Num1, Str1)>>, 1),
     File(<<RowAB(Num1, Str1), RowAB(Num2, Null), RowAB(Num1, Str1)>>, 3)}

ErrUsage == "--head and --tail flags can only be used when reading parquet files"

InitCli ==
    /\ pc = "run"
    /\ result = "none"
    /\ IdleSchema
    /\ head \in -1 .. MaxWindow
    /\ tail \in -1 .. MaxWindow
    /\ rresult = "none"
    /\ out = <<>>
    /\ strategy = "none"
    /\ config \in 1 .. MaxGroupRows
    /\ tempFile = NoTemp
    /\ pos = 0
    /\ allRows = <<>>
    /\ batch = <<>>
    /\ i = 0
    /\ j = 0
    /\ writer = NoWriter
    /\ sink = <<>>
    /\ decoded = <<>>
    /\ decodeFailed = FALSE
    /\ eof = FALSE
    /\ \E n \in 0 .. 1, o \in {"", "out.parquet"}, s \in BOOLEAN :
          cli = [NoCli EXCEPT !.args = n, !.outputPath = o, !.enableStreaming = s]
    /\ IF cli.args > 0
       THEN data \in CliFiles /\ input = <<>>
       ELSE data = <<>> /\ input \in SeqsUpTo(CliDocs, MaxCliDocs)

\* a faulty variant: the flags are refused only when both are given
ForwardWindowBoth(h, t) == h > 0 /\ t > 0

\* head > 0 || tail > 0 in the forward direction
ForwardWindow(h, t) == h > 0 \/ t > 0

\* len(args) > 0: return FromParquetFile(os.Stdout, args[0], head, tail)
RunE_File ==
    /\ pc = "run"
    /\ cli.args > 0
    /\ cli' = [cli EXCEPT !.called = "FromParquetFile"]
    /\ pc' = "call"
    /\ UNCHANGED <<result, schemaVars, readVars, fwdVars>>

\* no file, and --head or --tail given: the usage error
RunE_Usage ==
    /\ pc = "run"
    /\ cli.args = 0
    /\ ForwardWindow(head, tail)
    /\ result' = ErrUsage
    /\ pc' = "exit"
    /\ UNCHANGED <<cli, schemaVars, readVars, fwdVars>>

\* no file: the output is chosen (os.Create can fail), the configuration
\* is made from the flags and the forward conversion is called
RunE_Forward ==
    /\ pc = "run"
    /\ cli.args = 0
    /\ ~ForwardWindow(head, tail)
    /\ LET call == IF cli.enableStreaming THEN "StreamingToParquet"
                   ELSE "toParquetOptimized"
       IN  \/ /\ cli.outputPath = ""
              /\ cli' = [cli EXCEPT !.called = call]
              /\ strategy' = call
              /\ pc' = "start"
              /\ UNCHANGED result
           \/ /\ cli.outputPath # ""
              /\ cli' = [cli EXCEPT !.called = call, !.outputFile = "open"]
              /\ strategy' = call
              /\ pc' = "start"
              /\ UNCHANGED result
           \/ /\ cli.outputPath # ""
              /\ result' = "creating output file"
              /\ pc' = "exit"
              /\ UNCHANGED <<cli, strategy>>
    /\ UNCHANGED <<schemaVars, readVars, input, config, tempFile, pos, allRows,
                   batch, i, j, writer, sink, decoded, decodeFailed, eof>>

\* the conversion has returned: the deferred file.Close() runs and RunE
\* returns the conversion's error
RunE_Return ==
    /\ pc = "done"
    /\ cli.called # "none"
    /\ cli' = [cli EXCEPT !.outputFile = IF @ = "open" THEN "closed" ELSE @]
    /\ pc' = "exit"
    /\ UNCHANGED <<result, schemaVars, readVars, fwdVars>>

NextCli ==
    \/ RunE_File \/ RunE_Usage \/ RunE_Forward \/ RunE_Return
    \/ FromParquetFile
    \/ Opt_CreateTemp \/ Opt_Copy \/ Opt_Seek \/ Opt_Decode
    \/ Opt_BuildSchema \/ Opt_Write \/ Opt_Close
    \/ Str_CreateTemp \/ Str_Sample \/ Str_Rest \/ Str_BuildSchema
    \/ Str_Seek \/ Str_FillBatch \/ Str_Write \/ Str_Close

SpecCli == InitCli /\ [][NextCli]_vars

(***************************************************************************)
(* Properties.                                                             *)
(***************************************************************************)
\* the reverse conversion has returned, and the bytes it was given open
Projected == pc = "projected" /\ ~OpenFails(data)

\* the rows of the table the reverse conversion was given, in file order
TableOf == OpenFile(data).rows

\* the field names of an output line
KeysOf(line) == {line[k].key : k \in DOMAIN line}

\* C1: with head > 0, a successful projection of a table of T rows emits
\* exactly the first min(head, T) rows, in file order.
C1_HeadEmitsFirstRows ==
    (Projected /\ rresult = "nil" /\ head > 0) =>
        /\ Len(out) = Min(head, Len(TableOf))
        /\ \A k \in 1 .. Len(out) : out[k] = EncodeRow(TableOf[k])

C1_Witness ==
    /\ Projected /\ rresult = "nil"
    /\ head = 2 /\ Len(TableOf) = 3
    /\ Len(out) = 2 /\ out[1] # out[2]

\* C2: with head <= 0 and tail > 0, a successful projection of a table of T
\* rows emits exactly the last min(tail, T) rows, in file order.
C2_TailEmitsLastRows ==
    (Projected /\ rresult = "nil" /\ head <= 0 /\ tail > 0) =>
        /\ Len(out) = Min(tail, Len(TableOf))
        /\ \A k \in 1 .. Len(out) :
              out[k] = EncodeRow(TableOf[Len(TableOf) - Len(out) + k])

C2_Witness ==
    /\ Projected /\ rresult = "nil"
    /\ head <= 0 /\ tail = 2 /\ Len(TableOf) = 3
    /\ Len(out) = 2 /\ out[1] # out[2]
    /\ out[2] = EncodeRow(TableOf[3])

\* C3: when neither head nor tail is positive, a successful projection emits
\* every row of the table, in file order, one line per row.
C3_NoWindowEmitsAllRows ==
    (Projected /\ rresult = "nil" /\ head <= 0 /\ tail <= 0) =>
        /\ Len(out) = Len(TableOf)
        /\ \A k \in 1 .. Len(out) : out[k] = EncodeRow(TableOf[k])

C3_Witness ==
    /\ Projected /\ rresult = "nil"
    /\ head = 0 /\ tail = 0
    /\ Len(TableOf) = 3 /\ Len(out) = 3 /\ out[1] # out[3]

\* C8: projecting a table that declares zero rows returns success and
\* writes nothing, whatever head and tail are.
C8_EmptyTableNoOutput ==
    (Projected /\ OpenFile(data).numRows = 0) => (rresult = "nil" /\ out = <<>>)

C8_Witness ==
    /\ Projected /\ OpenFile(data).numRows = 0
    /\ head = 2 /\ tail = 1
    /\ rresult = "nil" /\ out = <<>>

\* C4: in both strategies, when the input ends with zero rows decoded, the
\* call, once it returns, returns success; no writer is created and nothing
\* is written to w.
C4_EmptyInputSucceeds ==
    (eof /\ decoded = <<>>) =>
        /\ result # "none" => result = "nil"
        /\ writer.state = "none"
        /\ sink = <<>>

C4_Witness ==
    /\ strategy = "StreamingToParquet"
    /\ eof /\ decoded = <<>>
    /\ result = "nil" /\ pc = "done"
    /\ tempFile.exists = FALSE

\* C5: in both strategies, once a document of the input fails to decode, the
\* call has returned a decoding error, and nothing was written to w.
C5_MalformedAborts ==
    decodeFailed =>
        /\ result \in {"decoding json", "decoding json for sampling"}
        /\ writer.state = "none"
        /\ sink = <<>>

C5_Witness ==
    /\ strategy = "StreamingToParquet"
    /\ decodeFailed
    /\ Len(decoded) >= sampleSize
    /\ result = "decoding json"

\* C6: in both strategies, after a successful conversion the rows handed to
\* the writer are the rows decoded from the input: same count, same order.
C6_WriterGetsDecodedRows ==
    (result = "nil") => writer.rows = decoded

C6_Witness ==
    /\ strategy = "StreamingToParquet"
    /\ result = "nil"
    /\ Len(decoded) = 3 /\ Len(decoded) > streamBatchSize
    /\ decoded[1] # decoded[2] /\ decoded[2] # decoded[3]
    /\ writer.rows = decoded

\* the rows the schema of the forward conversion was inferred from
InferredFrom == IF strategy = "StreamingToParquet" THEN sampleRows ELSE decoded

\* the forward conversion of a non-empty input succeeded and the reverse
\* conversion of its output, with head = 0 and tail = 0, succeeded
RoundTripDone ==
    /\ pc = "projected" /\ result = "nil" /\ rresult = "nil"
    /\ decoded # <<>>
    /\ head = 0 /\ tail = 0

\* C7 as stated: a round trip yields the same number of rows and, for each
\* row, the field names of the input row.
C7_RoundTripKeepsRowFields ==
    RoundTripDone =>
        /\ Len(out) = Len(decoded)
        /\ \A k \in 1 .. Len(out) : KeysOf(out[k]) = DOMAIN decoded[k]

\* C7 amended: a round trip yields the same number of rows, and every output
\* row has the columns of the schema, which are the field names of all the
\* rows the schema was inferred from.
C7_RoundTripKeepsCountAndColumns ==
    RoundTripDone =>
        /\ Len(out) = Len(decoded)
        /\ \A k \in 1 .. Len(out) :
              KeysOf(out[k]) = UNION {DOMAIN InferredFrom[n] : n \in DOMAIN InferredFrom}

C7_Witness ==
    /\ RoundTripDone
    /\ strategy = "toParquetOptimized"
    /\ Len(out) = 2
    /\ DOMAIN decoded[1] = {"a"} /\ DOMAIN decoded[2] = {"b"}
    /\ KeysOf(out[1]) = {"a", "b"}

\* the number of sampled rows in which field f has a value of kind k
Observations(f, k) ==
    Cardinality({n \in DOMAIN sampleRows :
                    f \in DOMAIN sampleRows[n] /\ sampleRows[n][f].kind = k})

\* the physical type the fixed table maps a kind to
PhysicalTypeOf(k) ==
    CASE k = "float64" -> "Double"
      [] k = "bool" -> "Boolean"
      [] OTHER -> "String"

\* C9: the physical type chosen for a field is the one mapped from the kind
\* with the strictly highest observation count of that field.
C9_DominantKindWins ==
    (pc = "built" /\ result = "nil") =>
        \A f \in DOMAIN schema : \A k \in Kinds :
            (\A k2 \in Kinds \ {k} : Observations(f, k2) < Observations(f, k))
                => schema[f].type = PhysicalTypeOf(k)

C9_Witness ==
    /\ pc = "built" /\ result = "nil"
    /\ Observations("a", "string") = 3
    /\ Observations("a", "float64") = 1
    /\ schema["a"].type = "String"

\* C10: a column is nullable whenever the field's null count in the sample
\* is nonzero or the field is absent from at least one sampled row.
C10_NullOrAbsentIsNullable ==
    (pc = "built" /\ result = "nil") =>
        \A f \in DOMAIN schema :
            (\/ Observations(f, "null") > 0
             \/ \E n \in DOMAIN sampleRows : f \notin DOMAIN sampleRows[n])
                => schema[f].optional

\* field f carries a value of one of these kinds in every sampled row
PresentAs(f, kinds) ==
    \A n \in DOMAIN sampleRows :
        f \in DOMAIN sampleRows[n] /\ sampleRows[n][f].kind \in kinds

DominantKinds(f) ==
    {k \in Kinds : /\ Observations(f, k) > 0
                   /\ \A k2 \in Kinds : Observations(f, k2) <= Observations(f, k)}

\* C12: a field whose dominant kind is array or nested object gets the text
\* physical type, and no built schema contains a native repeated column.
C12_ArrayAndObjectAreText ==
    (pc = "built" /\ result = "nil") =>
        \A f \in DOMAIN schema :
            /\ DominantKinds(f) \subseteq {"slice", "map"} => schema[f].type = "String"
            /\ ~schema[f].repeated

\* C13: the builder is deterministic: every schema it can return for the
\* statistics of the sample is the one it returned, ties of the highest
\* count included.
C13_BuilderDeterministic ==
    (pc = "built" /\ result = "nil") =>
        \A r \in buildOptimizedSchema(sampleRows) : r.schema = schema

\* the results with which a forward conversion returns after it created its
\* temporary file
BodyResults ==
    {"nil", "copying input to temp file", "seeking temp file", "decoding json",
     "decoding json for sampling", "writing to temp file", "building schema",
     "writing row to parquet", "closing writer"}

\* C14: when a forward conversion that created a temporary file has
\* returned, on whichever exit path, the file is closed and os.Remove was
\* called on it, so the file is gone unless the removal itself failed; a
\* failed removal leaves the result the one the exit path returned.
C14_SpillCleanedUp ==
    (pc = "done" /\ result # "creating temp file") =>
        /\ ~tempFile.open
        /\ tempFile.removal \in {"ok", "failed"}
        /\ tempFile.exists <=> tempFile.removal = "failed"
        /\ result \in BodyResults

C14_Witness ==
    /\ pc = "done" /\ result = "nil"
    /\ writer.state = "closed"
    /\ ~tempFile.open
    /\ tempFile.exists /\ tempFile.removal = "failed"

\* the forward direction was asked for with a row window
ForwardWithWindow == cli.args = 0 /\ (head > 0 \/ tail > 0)

\* C15: with no file argument and head > 0 or tail > 0 the command returns
\* the usage error before the output file is created and before any input
\* is read; no conversion is started.
C15_ForwardWindowIsUsageError ==
    (ForwardWithWindow /\ pc # "run") =>
        /\ pc = "exit" /\ result = ErrUsage
        /\ cli.outputFile = "none"
        /\ cli.called = "none" /\ strategy = "none"
        /\ tempFile = NoTemp /\ pos = 0 /\ decoded = <<>> /\ ~eof
        /\ sink = <<>>

C15_Witness ==
    /\ ForwardWithWindow /\ pc = "exit"
    /\ head = 0 /\ tail = 2
    /\ cli.outputPath # "" /\ Len(input) = 2
    /\ result = ErrUsage

\* C16: the command never calls FromParquetFile with both head > 0 and
\* tail > 0.
C16_HeadTailExclusive ==
    cli.called = "FromParquetFile" => ~(head > 0 /\ tail > 0)

\* value v is of the native kind of a column of this node
KindFits(v, node) ==
    /\ ~node.repeated
    /\ \/ v.kind = "string" /\ node.type = "String"
       \/ v.kind = "float64" /\ node.type = "Double"
       \/ v.kind = "bool" /\ node.type = "Boolean"

\* C17: every value handed to the columnar writer for a column of the
\* schema is null or of the native kind of the column's physical type (a
\* value of another kind was replaced by its JSON text first), so no array
\* and no mapping reaches the writer.
C17_WriterGetsNormalizedRows ==
    \A n \in DOMAIN writer.rows : \A f \in DOMAIN writer.rows[n] :
        LET v == writer.rows[n][f]
        IN  /\ v.kind \notin {"slice", "map"}
            /\ (f \in DOMAIN schema /\ ~IsNil(v)) => KindFits(v, schema[f])

\* C18: no forward conversion returns the schema-building error for lack of
\* rows: with no row decoded the call ends as success with nothing written.
C18_NoRowsIsNotASchemaError ==
    /\ result # "building schema"
    /\ (pc = "done" /\ eof /\ decoded = <<>>) => (result = "nil" /\ sink = <<>>)

C18_Witness ==
    /\ strategy = "toParquetOptimized"
    /\ input = <<>>
    /\ pc = "done" /\ eof /\ decoded = <<>>
    /\ result = "nil" /\ sink = <<>>

\* the node the fixed table gives for a dominant kind ("nil": no non-null
\* observation): plain text, 64-bit float or boolean
TableNode(k) == Leaf(PhysicalTypeOf(k))

\* C19: the physical type of a column is the one a fixed table gives for the
\* field's dominant kind: string gives text, floating-point 64-bit float,
\* boolean boolean, array text, object text, and a field with no non-null
\* observation text; building never fails for a non-empty sample.
C19_FixedKindTable ==
    (pc = "built" /\ Len(sampleRows) > 0) =>
        /\ result = "nil"
        /\ \A f \in DOMAIN schema :
              LET kinds == IF DominantKinds(f) = {} THEN {"nil"} ELSE DominantKinds(f)
              IN  \E k \in kinds :
                      /\ schema[f].type = TableNode(k).type
                      /\ schema[f].repeated = TableNode(k).repeated

\* C20 as stated: the builder fails exactly when the set of field statistics
\* it would build from is empty.
C20_FailsIffNoFieldStatistics ==
    (pc = "built") =>
        (result # "nil" <=> SeenFields(sampleRows) = {})

\* C20 as amended: the builder fails exactly when there is no sampled row,
\* and otherwise returns a schema with one column per field seen, which is
\* the empty schema when no sampled row carries a field.
C20_FailsIffNoSampleRows ==
    (pc = "built") =>
        /\ result = "no sample rows provided" <=> Len(sampleRows) = 0
        /\ result = "nil" <=> Len(sampleRows) > 0
        /\ result = "nil" => DOMAIN schema = SeenFields(sampleRows)

C20_Witness ==
    /\ pc = "built"
    /\ sampleRows = <<Row0, Row0>>
    /\ result = "nil"
    /\ schema = NoSchema

\* C21: the column names of the built schema are the union of the field
\* names of all sampled rows: no field missing, none invented (a schema has
\* one node per name).
C21_SchemaCoversSampledFields ==
    (pc = "built" /\ result = "nil") =>
        DOMAIN schema = UNION {DOMAIN sampleRows[n] : n \in DOMAIN sampleRows}

C21_Witness ==
    /\ pc = "built" /\ result = "nil"
    /\ Len(sampleRows) = 3
    /\ DOMAIN sampleRows[1] = {}
    /\ sampleRows[2] = RowA(Null)
    /\ DOMAIN sampleRows[3] = {"b"}
    /\ DOMAIN schema = {"a", "b"}

\* the sampled rows in which field f is present
RowsWith(f) == {n \in DOMAIN sampleRows : f \in DOMAIN sampleRows[n]}

\* the (row, position) pairs of the non-null array elements of kind k that
\* field f holds in the sample
ElementsOf(f, k) ==
    UNION {{<<n, x>> : x \in {y \in DOMAIN sampleRows[n][f].elems :
                                  sampleRows[n][f].elems[y] = k}} :
           n \in {m \in RowsWith(f) : sampleRows[m][f].kind = "slice"}}

\* C23: each array value of a field adds one to the field's total count and
\* to its array bucket, and one to the element bucket of its kind for every
\* non-null element; null elements and empty arrays add nothing to the
\* element buckets.
C23_ArrayStatistics ==
    (pc = "built" /\ result = "nil") =>
        \A f \in DOMAIN fieldStats :
            /\ fieldStats[f].totalCount = Cardinality(RowsWith(f))
            /\ fieldStats[f].types["slice"] = Observations(f, "slice")
            /\ \A k \in Kinds :
                  fieldStats[f].arrayTypes[k] = Cardinality(ElementsOf(f, k))

C23_Witness ==
    /\ pc = "built" /\ result = "nil"
    /\ sampleRows = <<RowAB(ArrMixed, Null), RowB(ArrNulls), RowAB(Str1, ArrEmpty)>>
    /\ fieldStats["a"].arrayTypes["float64"] = 1
    /\ fieldStats["a"].arrayTypes["string"] = 1
    /\ fieldStats["b"].types["slice"] = 2
    /\ fieldStats["b"].arrayTypes["float64"] = 1
    /\ fieldStats["b"].totalCount = 3

\* the number of non-null observations of field f the statistics hold
KindTotal(f) ==
    LET RECURSIVE Sum(_)
        Sum(S) == IF S = {} THEN 0
                  ELSE LET k == CHOOSE x \in S : TRUE
                       IN  fieldStats[f].types[k] + Sum(S \ {k})
    IN  Sum(Kinds)

\* C24: every field's statistics have nullCount <= totalCount and a
\* non-empty kind multiset whenever totalCount > nullCount; a null adds one
\* to the null count and to the total count and nothing to the kinds.
C24_StatisticsInvariant ==
    (pc = "built" /\ result = "nil") =>
        \A f \in DOMAIN fieldStats :
            /\ fieldStats[f].nullCount <= fieldStats[f].totalCount
            /\ fieldStats[f].totalCount > fieldStats[f].nullCount
                    => \E k \in Kinds : fieldStats[f].types[k] > 0
            /\ fieldStats[f].nullCount = Observations(f, "null")
            /\ fieldStats[f].totalCount = fieldStats[f].nullCount + KindTotal(f)
            /\ \A k \in Kinds : fieldStats[f].types[k] = Observations(f, k)

C24_Witness ==
    /\ pc = "built" /\ result = "nil"
    /\ Len(sampleRows) = 4
    /\ DOMAIN fieldStats = {"a", "b"}
    /\ fieldStats["a"].nullCount = 2
    /\ fieldStats["a"].totalCount = 4
    /\ fieldStats["a"].types["string"] = 1
    /\ fieldStats["b"].nullCount = fieldStats["b"].totalCount
    /\ fieldStats["b"].totalCount > 0

\* the first min(sampleSize, total) rows decoded from the input
SampleWindow == SubSeq(decoded, 1, Min(sampleSize, Len(decoded)))

\* the phases of StreamingToParquet after the input was read to its end
\* and the schema built
AfterSchema == {"seek", "batch", "write", "close"}

C25_ShortReadFails ==
    (Projected /\ OpenFile(data).numRows > Len(TableOf)) => rresult # "nil"

\* the errors of the temporary file
SpillErrors ==
    {"creating temp file", "copying input to temp file", "seeking temp file",
     "writing to temp file"}

\* C26: the buffered strategy never creates a temporary file and never
\* fails with an error of the temporary file.
C26_BufferedHasNoSpill ==
    (strategy = "toParquetOptimized") =>
        /\ tempFile = NoTemp
        /\ result \notin SpillErrors

\* C27: with head > 0 and tail > 0, head takes precedence: a successful
\* projection emits the first min(head, T) rows and ignores tail.
C27_HeadBeforeTail ==
    (Projected /\ rresult = "nil" /\ head > 0 /\ tail > 0) =>
        out = [k \in 1 .. Min(head, Len(TableOf)) |-> EncodeRow(TableOf[k])]

C27_Witness ==
    /\ Projected /\ rresult = "nil"
    /\ head = 1 /\ tail = 2 /\ Len(TableOf) = 3
    /\ TableOf[1] # TableOf[2] /\ TableOf[1] # TableOf[3]
    /\ out = <<EncodeRow(TableOf[1])>>

\* the number of footers w received: one per Close of the writer
FooterCount == Cardinality({k \in DOMAIN sink : sink[k].tag = "footer"})

\* C28: in both strategies the writer is closed exactly once and only after
\* every row was written; the first failing row write ends the conversion
\* with its error, no later row written and the writer not closed, w
\* keeping what was emitted before.
C28_WriterClosedOnceAfterAllRows ==
    /\ FooterCount = IF writer.state = "closed" THEN 1 ELSE 0
    /\ writer.state = "closed" =>
          /\ result = "nil"
          /\ writer.rows = decoded
          /\ writer.buffered = <<>>
    /\ result = "writing row to parquet" =>
          /\ writer.state = "open"
          /\ Len(writer.rows) < Len(decoded)
          /\ writer.rows = SubSeq(decoded, 1, Len(writer.rows))

C28_Witness ==
    /\ pc = "done" /\ result = "writing row to parquet"
    /\ Len(decoded) = 3 /\ Len(writer.rows) = 2
    /\ writer.state = "open"
    /\ sink # <<>> /\ FooterCount = 0

\* C29: FromParquet given no bytes returns the 'empty input' error and
\* writes nothing, so the empty output of a forward conversion of an empty
\* input is rejected by the reverse direction.
C29_EmptyBytesRejected ==
    /\ (pc = "projected" /\ Len(data) = 0) => (rresult = "empty input" /\ out = <<>>)
    /\ (pc = "projected" /\ eof /\ decoded = <<>>) =>
          (data = <<>> /\ rresult = "empty input")

C29_Witness ==
    /\ pc = "projected"
    /\ input = <<>> /\ result = "nil" /\ sink = <<>>
    /\ data = <<>>
    /\ rresult = "empty input" /\ out = <<>>

\* the order of the phases of a forward conversion
Rank(p) ==
    CASE p = "start" -> 0
      [] p = "sample" -> 1
      [] p = "rest" -> 2
      [] p = "schema" -> 3
      [] p = "seek" -> 4
      [] p \in {"batch", "write"} -> 5
      [] p = "close" -> 6
      [] OTHER -> 7

\* the writer exists only once the input was read to its end, every decoded
\* row is in the spill file and the schema is built; the replay reads the
\* spill file from its start
StreamingPhases ==
    (strategy = "StreamingToParquet") =>
        /\ writer.state # "none" =>
              /\ eof /\ Len(decoded) = Len(input)
              /\ tempFile.content = [k \in DOMAIN decoded |-> EncodeRow(decoded[k])]
              /\ DOMAIN schema = DOMAIN fieldStats
              /\ Rank(pc) > Rank("schema")
        /\ writer.state = "none" => (writer.rows = <<>> /\ sink = <<>>)
        /\ pc = "batch" => pos = Len(writer.rows) + Len(batch)
        /\ pc = "write" => pos = Len(writer.rows) + Len(batch) - j
        /\ writer.rows = SubSeq(decoded, 1, Len(writer.rows))

\* the phases follow one another in order, and the schema and the
\* statistics are set in the schema phase alone, which is left at once
StreamingSteps ==
    (strategy = "StreamingToParquet") =>
        /\ Rank(pc') >= Rank(pc)
        /\ pc = "schema" => pc' # "schema"
        /\ (schema' # schema \/ fieldStats' # fieldStats) => pc = "schema"
        /\ (writer.state = "none" /\ writer'.state # "none") => pc = "schema"

\* C30: in the sampled strategy no row reaches the writer, and the writer is
\* not created, before the input was read to end-of-stream, every decoded
\* row persisted and the schema built; the spill file is rewound before the
\* first replayed row; the schema is built once per call.
C30_StreamingPhaseOrder == []StreamingPhases /\ [][StreamingSteps]_vars

C30_Witness ==
    /\ strategy = "StreamingToParquet"
    /\ pc = "write" /\ j = 1
    /\ Len(decoded) = 3 /\ Len(writer.rows) = 1 /\ pos = 2
    /\ writer.state = "open"

====
